---------------------------- MODULE Spec2Model ----------------------------
(***************************************************************************)
(* Model of the question prompt (vibe/cli/textual_ui/widgets/              *)
(* question_app.py), the agent modes (vibe/core/modes.py) and the mode     *)
(* indicator (vibe/cli/textual_ui/widgets/mode_indicator.py).              *)
(*                                                                         *)
(* Strings whose characters matter (choice labels, descriptions, the value *)
(* of the free-text input) are sequences of one-character strings, so that *)
(* str.strip() is computed and not assumed.  Python indices are 0-based;   *)
(* sequences here are 1-based, so panel_widgets[t] is panels[t + 1].       *)
(***************************************************************************)
EXTENDS Integers, Sequences, FiniteSets, TLC

(***************************************************************************)
(* Bounds of the model.                                                    *)
(***************************************************************************)
MaxQuestions == 2
MaxChoices == 2
MaxEvents == 2
MaxTabs == 3
MaxRun == 4
MaxCycle == 12

VARIABLES
    questions,     \* QuestionApp.questions: the Question records of the session
    panels,        \* QuestionApp.panel_widgets: one QuestionPanel state per question
    tab_widgets,   \* QuestionApp.tab_widgets: is_active of each QuestionTab
    current_tab,   \* QuestionApp.current_tab (0-based)
    focus,         \* target of the most recent focus() directive
    phase,         \* "composed", "mounted" (focus callback pending), "ready"
    posted,        \* messages the QuestionApp posted while handling the last command
    emitted,       \* number of Answered / Cancelled messages posted so far
    navigated,     \* panels that received move_up / move_down or were switched to
    runCmd,        \* command of the current run of identical commands
    runLen,        \* number of commands in the current run
    runStartSel,   \* selected_option of the active panel when the run started
    runStartTab,   \* current_tab when the run started
    mode,          \* the agent mode that next_mode cycles
    cycleStart,    \* the mode the cycling started from
    cycleLen,      \* number of next_mode applications since cycleStart
    indicator,     \* ModeIndicator: _mode, classes, caption
    mode_configs,  \* the module-level dict MODE_CONFIGS
    parsed,        \* <<value, result>> of the last AgentMode.from_string call
    looked,        \* <<mode, config_overrides>> of the last config_overrides lookup
    directives     \* observed: the focus() calls made while handling the last step

sessionVars == <<questions, panels, tab_widgets, current_tab, focus, phase>>
eventVars == <<posted, emitted>>
runVars == <<runCmd, runLen, runStartSel, runStartTab>>
modeVars == <<mode, cycleStart, cycleLen, indicator, mode_configs, parsed, looked>>
vars == <<sessionVars, eventVars, navigated, runVars, modeVars, directives>>

(***************************************************************************)
(* Question / Choice data supplied by the caller.                          *)
(***************************************************************************)
NoDescription == <<>>

Digit(j) == ToString(j)

ChoiceLabel(j) ==
    IF j = 1 THEN <<"y", "e", "s">>
    ELSE IF j = 2 THEN <<"n", "o">>
    ELSE <<"o", "p", "t", Digit(j)>>

\* Odd choices carry a description, even ones carry none.
ChoiceDescription(j) ==
    IF j % 2 = 1 THEN <<"d", "e", "s", "c", Digit(j)>> ELSE NoDescription

Choice(j) == [label |-> ChoiceLabel(j), description |-> ChoiceDescription(j)]

QuestionText(i) == "Q" \o ToString(i) \o " text"

Question(i, k) ==
    [question |-> QuestionText(i), choices |-> [j \in 1..k |-> Choice(j)]]

\* All sessions of 1..max questions with 0..MaxChoices choices each.
Sessions(max) ==
    UNION {
        { [i \in 1..n |-> Question(i, ks[i])] : ks \in [1..n -> 0..MaxChoices] }
        : n \in 1..max }

\* Values the free-text input can hold after editing.
Whitespace == {" ", "\t"}

TextValues ==
    { <<>>, <<" ", "\t">>, <<" ", "h", " ", "i", "\t">> }

(***************************************************************************)
(* str.strip(): drop leading and trailing whitespace.                      *)
(***************************************************************************)
RECURSIVE lstrip(_)
lstrip(s) ==
    IF s /= <<>> /\ Head(s) \in Whitespace THEN lstrip(Tail(s)) ELSE s

RECURSIVE rstrip(_)
rstrip(s) ==
    IF s /= <<>> /\ s[Len(s)] \in Whitespace
    THEN rstrip(SubSeq(s, 1, Len(s) - 1))
    ELSE s

strip(s) == rstrip(lstrip(s))

(***************************************************************************)
(* QuestionPanel                                                           *)
(***************************************************************************)
InputOf(i) == [kind |-> "input", idx |-> i]
PanelOf(i) == [kind |-> "panel", idx |-> i]
NoFocus == [kind |-> "none", idx |-> 0]

choices(i) == questions[i].choices

\* A panel that starts on the "Other" option.
QuestionPanel_init_other_first(q, i) ==
    [ selected_option |-> Len(q.choices),
      total_options |-> Len(q.choices) + 1,
      is_other_mode |-> FALSE,
      value |-> <<>>,
      display |-> (i = 1),
      text_active |-> FALSE,
      mounted |-> FALSE ]

\* QuestionPanel.__init__, with the display flag QuestionApp.compose gives it
\* and the text input compose creates (value "").
QuestionPanel_init(q, i) ==
    [ selected_option |-> 0,
      total_options |-> Len(q.choices) + 1,
      is_other_mode |-> FALSE,
      value |-> <<>>,
      display |-> (i = 1),
      text_active |-> FALSE,
      mounted |-> FALSE ]

\* The text one option widget shows: label, and " - description" when there is one.
OptionText(c, is_selected) ==
    (IF is_selected THEN <<">", " ">> ELSE <<" ", " ">>)
        \o c.label
        \o (IF c.description /= NoDescription
            THEN <<" ", "-", " ">> \o c.description
            ELSE <<>>)

\* QuestionPanel._update_options: the new is_other_mode and the focus directive.
update_options_mode(p, chs) == p.selected_option = Len(chs)

update_options_focus(p, chs, i, f) ==
    IF p.selected_option = Len(chs) THEN InputOf(i)
    ELSE IF p.is_other_mode THEN PanelOf(i)
    ELSE f

\* _update_options that never hands focus back to the panel.
update_options_directives_input_only(p, chs, i) ==
    IF p.selected_option = Len(chs) THEN <<InputOf(i)>> ELSE <<>>

\* The focus() calls of _update_options, in order.
update_options_directives(p, chs, i) ==
    IF p.selected_option = Len(chs) THEN <<InputOf(i)>>
    ELSE IF p.is_other_mode THEN <<PanelOf(i)>>
    ELSE <<>>

update_options(p, chs) ==
    [p EXCEPT !.is_other_mode = update_options_mode(p, chs)]

\* move_up without the modulo.
move_up_index_no_wrap(p) == p.selected_option - 1

move_up_index(p) == (p.selected_option - 1) % p.total_options

\* move_down that stops at the last option instead of wrapping.
move_down_index_clamped(p) ==
    IF p.selected_option + 1 < p.total_options
    THEN p.selected_option + 1
    ELSE p.selected_option

\* move_down without the modulo.
move_down_index_no_wrap(p) == p.selected_option + 1

move_down_index(p) == (p.selected_option + 1) % p.total_options

\* get_answer that returns the free text as typed.
get_answer_unstripped(p, chs) ==
    IF p.selected_option < Len(chs)
    THEN <<chs[p.selected_option + 1].label, FALSE>>
    ELSE <<p.value, TRUE>>

\* QuestionPanel.get_answer: <<answer, is_other>>.
get_answer(p, chs) ==
    IF p.selected_option < Len(chs)
    THEN <<chs[p.selected_option + 1].label, FALSE>>
    ELSE <<strip(p.value), TRUE>>

\* focus_input that always focuses the panel.
focus_input_panel(p, i) == PanelOf(i)

\* QuestionPanel.focus_input
focus_input(p, i) == IF p.is_other_mode THEN InputOf(i) ELSE PanelOf(i)

(***************************************************************************)
(* QuestionApp: construction, compose and mount.                           *)
(***************************************************************************)
NumPanels == Len(panels)

\* QuestionApp.__init__ and compose for the question list qs.
QuestionApp_init(qs) ==
    /\ questions = qs
    /\ current_tab = 0
    /\ panels = [i \in 1..Len(qs) |-> QuestionPanel_init(qs[i], i)]
    /\ tab_widgets = IF Len(qs) > 1 THEN [i \in 1..Len(qs) |-> (i = 1)] ELSE <<>>
    /\ focus = NoFocus
    /\ phase = "composed"

\* QuestionPanel.on_mount of panel i: the first display update.
QuestionPanel_on_mount(i) ==
    /\ phase = "composed"
    /\ ~panels[i].mounted
    /\ panels' = [panels EXCEPT ![i] =
                    [update_options(panels[i], choices(i)) EXCEPT !.mounted = TRUE]]
    /\ focus' = update_options_focus(panels[i], choices(i), i, focus)
    /\ UNCHANGED <<questions, tab_widgets, current_tab, phase>>

\* QuestionApp.on_mount runs once its children are mounted: it marks the first
\* question text active and schedules panel_widgets[0].focus_input.
QuestionApp_on_mount ==
    /\ phase = "composed"
    /\ \A i \in 1..NumPanels : panels[i].mounted
    /\ panels' = [panels EXCEPT ![1].text_active = TRUE]
    /\ phase' = "mounted"
    /\ UNCHANGED <<questions, tab_widgets, current_tab, focus>>

\* The callback scheduled with call_after_refresh.
after_refresh ==
    /\ phase = "mounted"
    /\ focus' = focus_input(panels[1], 1)
    /\ phase' = "ready"
    /\ UNCHANGED <<questions, panels, tab_widgets, current_tab>>

(***************************************************************************)
(* QuestionApp: navigation.                                                *)
(***************************************************************************)
\* _get_current_panel that always returns the first panel.
get_current_panel_first == IF NumPanels > 0 THEN 1 ELSE 0

\* QuestionApp._get_current_panel: the 1-based index of the panel, 0 for None.
get_current_panel ==
    IF 0 <= current_tab /\ current_tab < NumPanels THEN current_tab + 1 ELSE 0

\* QuestionPanel.move_up / move_down on panel i, given the new index.
panel_move(i, new_index) ==
    LET moved == [panels[i] EXCEPT !.selected_option = new_index]
    IN  /\ panels' = [panels EXCEPT ![i] = update_options(moved, choices(i))]
        /\ focus' = update_options_focus(moved, choices(i), i, focus)

\* The focus() calls a move of panel i to new_index makes.
panel_move_directives(i, new_index) ==
    update_options_directives([panels[i] EXCEPT !.selected_option = new_index],
                              choices(i), i)

\* The focus() calls action_move_up and action_move_down make.
action_move_up_directives ==
    IF get_current_panel /= 0
    THEN panel_move_directives(get_current_panel,
                               move_up_index(panels[get_current_panel]))
    ELSE <<>>

action_move_down_directives ==
    IF get_current_panel /= 0
    THEN panel_move_directives(get_current_panel,
                               move_down_index(panels[get_current_panel]))
    ELSE <<>>

action_move_up ==
    /\ phase = "ready"
    /\ IF get_current_panel /= 0
       THEN panel_move(get_current_panel, move_up_index(panels[get_current_panel]))
       ELSE UNCHANGED <<panels, focus>>
    /\ UNCHANGED <<questions, tab_widgets, current_tab, phase>>

action_move_down ==
    /\ phase = "ready"
    /\ IF get_current_panel /= 0
       THEN panel_move(get_current_panel, move_down_index(panels[get_current_panel]))
       ELSE UNCHANGED <<panels, focus>>
    /\ UNCHANGED <<questions, tab_widgets, current_tab, phase>>

\* _switch_tab that leaves the old panel and question text as they were.
switch_tab_keeping_old(new_tab) ==
    IF new_tab = current_tab
    THEN UNCHANGED <<panels, tab_widgets, current_tab, focus>>
    ELSE /\ tab_widgets' =
                IF tab_widgets /= <<>>
                THEN [tab_widgets EXCEPT ![current_tab + 1] = FALSE,
                                         ![new_tab + 1] = TRUE]
                ELSE tab_widgets
         /\ panels' = [panels EXCEPT
                ![new_tab + 1].text_active = TRUE,
                ![new_tab + 1].display = TRUE]
         /\ current_tab' = new_tab
         /\ focus' = focus_input(panels[new_tab + 1], new_tab + 1)

\* QuestionApp._switch_tab
switch_tab(new_tab) ==
    IF new_tab = current_tab
    THEN UNCHANGED <<panels, tab_widgets, current_tab, focus>>
    ELSE /\ tab_widgets' =
                IF tab_widgets /= <<>>
                THEN [tab_widgets EXCEPT ![current_tab + 1] = FALSE,
                                         ![new_tab + 1] = TRUE]
                ELSE tab_widgets
         /\ panels' = [panels EXCEPT
                ![current_tab + 1].text_active = FALSE,
                ![current_tab + 1].display = FALSE,
                ![new_tab + 1].text_active = TRUE,
                ![new_tab + 1].display = TRUE]
         /\ current_tab' = new_tab
         /\ focus' = focus_input(panels[new_tab + 1], new_tab + 1)

\* next_tab that stops at the last tab instead of wrapping.
next_tab_index_clamped ==
    IF current_tab + 1 < NumPanels THEN current_tab + 1 ELSE current_tab

next_tab_index == (current_tab + 1) % NumPanels

prev_tab_index == (current_tab - 1) % NumPanels

\* The focus() call of _switch_tab: new panel's focus_input, none on no change.
switch_tab_directives(new_tab) ==
    IF new_tab = current_tab
    THEN <<>>
    ELSE <<focus_input(panels[new_tab + 1], new_tab + 1)>>

action_next_tab_directives ==
    IF NumPanels > 1 THEN switch_tab_directives(next_tab_index) ELSE <<>>

action_prev_tab_directives ==
    IF NumPanels > 1 THEN switch_tab_directives(prev_tab_index) ELSE <<>>

action_next_tab ==
    /\ phase = "ready"
    /\ IF NumPanels > 1
       THEN switch_tab(next_tab_index)
       ELSE UNCHANGED <<panels, tab_widgets, current_tab, focus>>
    /\ UNCHANGED <<questions, phase>>

action_prev_tab ==
    /\ phase = "ready"
    /\ IF NumPanels > 1
       THEN switch_tab(prev_tab_index)
       ELSE UNCHANGED <<panels, tab_widgets, current_tab, focus>>
    /\ UNCHANGED <<questions, phase>>

\* The user edits the free-text input that has focus; its value becomes v.
input_changed(v) ==
    /\ phase = "ready"
    /\ focus.kind = "input"
    /\ panels[focus.idx].value /= v
    /\ panels' = [panels EXCEPT ![focus.idx].value = v]
    /\ UNCHANGED <<questions, tab_widgets, current_tab, focus, phase>>

(***************************************************************************)
(* QuestionApp: submit and cancel.                                         *)
(***************************************************************************)
Answered(answers) == [kind |-> "Answered", answers |-> answers]
Cancelled == [kind |-> "Cancelled", answers |-> <<>>]

\* The loop of QuestionApp._do_submit over panel_widgets[i .. ], appending to acc.
RECURSIVE collect_answers(_, _)
collect_answers(i, acc) ==
    IF i > NumPanels THEN acc
    ELSE LET a == get_answer(panels[i], choices(i))
         IN  collect_answers(i + 1, Append(acc, <<questions[i].question, a[1], a[2]>>))

\* A submit that answers for the active panel only.
do_submit_active_panel ==
    LET a == get_answer(panels[current_tab + 1], choices(current_tab + 1))
    IN  <<Answered(<<<<questions[current_tab + 1].question, a[1], a[2]>>>>)>>

\* QuestionApp._do_submit: the messages it posts.
do_submit == <<Answered(collect_answers(1, <<>>))>>

\* QuestionApp.action_submit, .on_input_submitted, .action_cancel and
\* .on_question_panel_cancel_requested: the messages each posts.
QuestionApp_action_submit == do_submit
QuestionApp_on_input_submitted == do_submit
QuestionApp_action_cancel == <<Cancelled>>
QuestionApp_on_question_panel_cancel_requested == <<Cancelled>>

\* QuestionPanel: each of its three escape paths posts one CancelRequested, which
\* bubbles to the QuestionApp.
QuestionPanel_action_cancel == QuestionApp_on_question_panel_cancel_requested
QuestionPanel_on_escapable_input_escape_pressed ==
    QuestionApp_on_question_panel_cancel_requested
QuestionPanel_on_key == QuestionApp_on_question_panel_cancel_requested

\* EscapableInput.on_key: stops the key event and posts EscapePressed, which
\* bubbles to the panel.
EscapableInput_on_key == QuestionPanel_on_escapable_input_escape_pressed

\* The widgets from the QuestionApp down to the focused one.
FocusChainDown(f) ==
    <<"QuestionApp", "QuestionPanel">>
        \o (IF f.kind = "input" THEN <<"EscapableInput">> ELSE <<>>)

\* BINDINGS: the widgets that bind escape with priority=True, and their action.
EscapePriorityBinding(w) == w \in {"QuestionApp", "QuestionPanel"}

EscapeBindingAction(w) ==
    IF w = "QuestionApp" THEN QuestionApp_action_cancel ELSE QuestionPanel_action_cancel

\* An escape press that every escape binding and the focused widget's on_key
\* handle, none of them consuming the key.
press_escape_unconsumed(f) ==
    QuestionApp_action_cancel \o QuestionPanel_action_cancel
        \o (IF f.kind = "input" THEN EscapableInput_on_key ELSE QuestionPanel_on_key)

\* One escape press with focus f.  Priority bindings are tried first, from the
\* outermost widget down to the focused one, and the first one found consumes the
\* key; only a key no priority binding takes is sent to the focused widget's on_key.
press_escape(f) ==
    LET chain == FocusChainDown(f)
        bound == { n \in 1..Len(chain) : EscapePriorityBinding(chain[n]) }
    IN  IF bound /= {}
        THEN EscapeBindingAction(chain[CHOOSE n \in bound : \A m \in bound : n <= m])
        ELSE IF f.kind = "input" THEN EscapableInput_on_key ELSE QuestionPanel_on_key

\* A command whose handler posts msgs and empties every free-text input.
Post_clearing_inputs(msgs) ==
    /\ phase = "ready"
    /\ emitted < MaxEvents
    /\ posted' = msgs
    /\ emitted' = emitted + Len(msgs)
    /\ panels' = [i \in 1..NumPanels |-> [panels[i] EXCEPT !.value = <<>>]]
    /\ UNCHANGED <<questions, tab_widgets, current_tab, focus, phase>>

\* A command whose handler posts msgs and changes no session state.
Post(msgs) ==
    /\ phase = "ready"
    /\ emitted < MaxEvents
    /\ posted' = msgs
    /\ emitted' = emitted + Len(msgs)
    /\ UNCHANGED sessionVars

\* Enter with the panel focused runs the QuestionApp's enter binding.
KeyEnterPanel == focus.kind = "panel" /\ Post(QuestionApp_action_submit)

\* Enter with the free-text input focused: the input posts Submitted.
KeyEnterInput == focus.kind = "input" /\ Post(QuestionApp_on_input_submitted)

KeyEscape == focus.kind /= "none" /\ Post(press_escape(focus))

(***************************************************************************)
(* Agent modes (vibe/core/modes.py).  A StrEnum member made with auto() has *)
(* its lower-cased name as value.                                          *)
(***************************************************************************)
DEFAULT == "default"
AUTO_APPROVE == "auto_approve"
PLAN == "plan"

\* AgentMode, in declaration order.
AgentModeMembers == <<DEFAULT, AUTO_APPROVE, PLAN>>
AgentMode == { AgentModeMembers[n] : n \in 1..Len(AgentModeMembers) }

SAFE == "safe"
NEUTRAL == "neutral"
YOLO == "yolo"
ModeSafety == {SAFE, NEUTRAL, YOLO}

PLAN_MODE_TOOLS == <<"grep", "read_file", "todo">>

\* ModeConfig, config_overrides being a set of <<key, value>> pairs.
ModeConfig(display_name, description, safety, auto_approve, config_overrides) ==
    [ display_name |-> display_name,
      description |-> description,
      safety |-> safety,
      auto_approve |-> auto_approve,
      config_overrides |-> config_overrides ]

\* MODE_CONFIGS with no tool restriction on PLAN.
MODE_CONFIGS_plan_unrestricted(m) ==
    CASE m = DEFAULT ->
            ModeConfig(<<"D", "e", "f", "a", "u", "l", "t">>,
                       "Requires approval for tool executions",
                       NEUTRAL, FALSE, {})
      [] m = PLAN ->
            ModeConfig(<<"P", "l", "a", "n">>,
                       "Read-only mode for exploration and planning",
                       SAFE, TRUE, {})
      [] m = AUTO_APPROVE ->
            ModeConfig(<<"A", "u", "t", "o", " ", "A", "p", "p", "r", "o", "v", "e">>,
                       "Auto-approves all tool executions",
                       YOLO, TRUE, {})

MODE_CONFIGS(m) ==
    CASE m = DEFAULT ->
            ModeConfig(<<"D", "e", "f", "a", "u", "l", "t">>,
                       "Requires approval for tool executions",
                       NEUTRAL, FALSE, {})
      [] m = PLAN ->
            ModeConfig(<<"P", "l", "a", "n">>,
                       "Read-only mode for exploration and planning",
                       SAFE, TRUE, {<<"enabled_tools", PLAN_MODE_TOOLS>>})
      [] m = AUTO_APPROVE ->
            ModeConfig(<<"A", "u", "t", "o", " ", "A", "p", "p", "r", "o", "v", "e">>,
                       "Auto-approves all tool executions",
                       YOLO, TRUE, {})

\* The order in which MODE_CONFIGS lists the modes.
get_mode_order_of_configs == <<DEFAULT, PLAN, AUTO_APPROVE>>

get_mode_order == <<AUTO_APPROVE, PLAN, DEFAULT>>

\* list.index: the first position of x in s (0-based).
index(s, x) ==
    (CHOOSE n \in 1..Len(s) : s[n] = x /\ \A m \in 1..(n - 1) : s[m] /= x) - 1

next_mode(current) ==
    LET order == get_mode_order
        idx == index(order, current)
    IN  order[((idx + 1) % Len(order)) + 1]

(***************************************************************************)
(* Mode indicator (vibe/cli/textual_ui/widgets/mode_indicator.py).         *)
(***************************************************************************)
\* The icons are the glyphs U+23F5, U+23F8 U+FE0E and U+23F5 U+23F5, written here
\* by name.
MODE_ICONS(m) ==
    CASE m = DEFAULT -> "play"
      [] m = PLAN -> "pause"
      [] m = AUTO_APPROVE -> "play play"

SAFETY_CLASSES(t) ==
    CASE t = SAFE -> "mode-safe"
      [] t = NEUTRAL -> "mode-neutral"
      [] t = YOLO -> "mode-yolo"

\* str.lower() on ASCII text, one character at a time.
UpperLetters ==
    <<"A", "B", "C", "D", "E", "F", "G", "H", "I", "J", "K", "L", "M",
      "N", "O", "P", "Q", "R", "S", "T", "U", "V", "W", "X", "Y", "Z">>

LowerLetters ==
    <<"a", "b", "c", "d", "e", "f", "g", "h", "i", "j", "k", "l", "m",
      "n", "o", "p", "q", "r", "s", "t", "u", "v", "w", "x", "y", "z">>

LowerChar(c) ==
    IF \E n \in 1..Len(UpperLetters) : UpperLetters[n] = c
    THEN LowerLetters[CHOOSE n \in 1..Len(UpperLetters) : UpperLetters[n] = c]
    ELSE c

lower(s) == [n \in 1..Len(s) |-> LowerChar(s[n])]

\* The member names of AgentMode; auto() makes each value the lower-cased name.
MemberName(m) ==
    CASE m = DEFAULT -> <<"D", "E", "F", "A", "U", "L", "T">>
      [] m = AUTO_APPROVE ->
            <<"A", "U", "T", "O", "_", "A", "P", "P", "R", "O", "V", "E">>
      [] m = PLAN -> <<"P", "L", "A", "N">>

MemberValue(m) == lower(MemberName(m))

None == "None"

\* from_string without the lower().
from_string_case_sensitive(value) ==
    LET hits == { m \in AgentMode : MemberValue(m) = value }
    IN  IF hits /= {} THEN CHOOSE m \in hits : TRUE ELSE None

\* AgentMode.from_string: cls(value.lower()), None on ValueError.
from_string(value) ==
    LET hits == { m \in AgentMode : MemberValue(m) = lower(value) }
    IN  IF hits /= {} THEN CHOOSE m \in hits : TRUE ELSE None

\* Strings given to from_string.
ParseInputs ==
    { <<"p", "l", "a", "n">>,
      <<"P", "L", "A", "N">>,
      <<"P", "l", "a", "N">>,
      <<"b", "o", "g", "u", "s">>,
      <<>>,
      <<" ", "p", "l", "a", "n">>,
      <<"p", "l", "a", "n", "s">>,
      <<"d", "e", "f", "a", "u", "l", "t">>,
      <<"D", "e", "f", "a", "u", "l", "t">>,
      <<"a", "u", "t", "o", "_", "a", "p", "p", "r", "o", "v", "e">>,
      <<"A", "U", "T", "O", "_", "A", "P", "P", "R", "O", "V", "E">>,
      <<"A", "u", "t", "o", " ", "A", "p", "p", "r", "o", "v", "e">> }

\* AgentMode.config_overrides: the entry's config_overrides.
config_overrides(m) == mode_configs[m].config_overrides

\* _update_display that adds the new class and removes none.
update_display_keeping_classes(m, cls) ==
    [ mode |-> m,
      caption |-> <<MODE_ICONS(m), " ">> \o lower(MODE_CONFIGS(m).display_name)
                    \o <<" mode (shift+tab to cycle)">>,
      classes |-> cls \cup {SAFETY_CLASSES(MODE_CONFIGS(m).safety)} ]

\* ModeIndicator._update_display for mode m on an indicator with classes cls.
update_display(m, cls) ==
    [ mode |-> m,
      caption |-> <<MODE_ICONS(m), " ">> \o lower(MODE_CONFIGS(m).display_name)
                    \o <<" mode (shift+tab to cycle)">>,
      classes |-> (cls \ { SAFETY_CLASSES(t) : t \in ModeSafety })
                    \cup {SAFETY_CLASSES(MODE_CONFIGS(m).safety)} ]

\* ModeIndicator.__init__
ModeIndicator_init(m) == update_display(m, {})

\* ModeIndicator.set_mode
set_mode(m) == indicator' = update_display(m, indicator.classes)

(***************************************************************************)
(* Specification of one question session.                                  *)
(***************************************************************************)
RegistryInit ==
    /\ mode_configs = [m \in AgentMode |-> MODE_CONFIGS(m)]
    /\ parsed = <<>>
    /\ looked = <<>>

ModeIdle ==
    /\ mode = AUTO_APPROVE
    /\ cycleStart = AUTO_APPROVE
    /\ cycleLen = 0
    /\ indicator = ModeIndicator_init(AUTO_APPROVE)
    /\ RegistryInit

RunIdle ==
    /\ runCmd = "none"
    /\ runLen = 0
    /\ runStartSel = 0
    /\ runStartTab = 0

Quiescent ==
    /\ posted = <<>>
    /\ emitted = 0
    /\ navigated = {}
    /\ directives = <<>>
    /\ RunIdle

Init ==
    /\ \E qs \in Sessions(MaxQuestions) : QuestionApp_init(qs)
    /\ Quiescent
    /\ ModeIdle

PanelMount ==
    /\ \E i \in 1..NumPanels : QuestionPanel_on_mount(i)
    /\ UNCHANGED <<eventVars, navigated, runVars, modeVars, directives>>

AppMount ==
    /\ QuestionApp_on_mount
    /\ UNCHANGED <<eventVars, navigated, runVars, modeVars, directives>>

AfterRefresh ==
    /\ after_refresh
    /\ UNCHANGED <<eventVars, navigated, runVars, modeVars, directives>>

\* A navigation command posts nothing.
Quiet == posted' = <<>> /\ UNCHANGED <<emitted, modeVars>>

KeyUp ==
    /\ action_move_up
    /\ navigated' = navigated \cup ({get_current_panel} \ {0})
    /\ Quiet

KeyDown ==
    /\ action_move_down
    /\ navigated' = navigated \cup ({get_current_panel} \ {0})
    /\ Quiet

KeyNextTab ==
    /\ action_next_tab
    /\ navigated' = navigated \cup ({current_tab' + 1} \ {current_tab + 1})
    /\ Quiet

KeyPrevTab ==
    /\ action_prev_tab
    /\ navigated' = navigated \cup ({current_tab' + 1} \ {current_tab + 1})
    /\ Quiet

TypeText ==
    /\ \E v \in TextValues : input_changed(v)
    /\ UNCHANGED navigated
    /\ Quiet

SubmitByBinding == KeyEnterPanel /\ UNCHANGED <<navigated, modeVars, runVars, directives>>

SubmitByInput == KeyEnterInput /\ UNCHANGED <<navigated, modeVars, runVars, directives>>

Escape == KeyEscape /\ UNCHANGED <<navigated, modeVars, runVars, directives>>

Next ==
    \/ PanelMount
    \/ AppMount
    \/ AfterRefresh
    \/ KeyUp /\ UNCHANGED <<runVars, directives>>
    \/ KeyDown /\ UNCHANGED <<runVars, directives>>
    \/ KeyNextTab /\ UNCHANGED <<runVars, directives>>
    \/ KeyPrevTab /\ UNCHANGED <<runVars, directives>>
    \/ TypeText /\ UNCHANGED <<runVars, directives>>
    \/ SubmitByBinding
    \/ SubmitByInput
    \/ Escape

Spec == Init /\ [][Next]_vars

(***************************************************************************)
(* Specification of runs of one repeated navigation command: any           *)
(* navigation first, then up to MaxRun times the same command.             *)
(***************************************************************************)
RunCommands == {"move_up", "move_down", "next_tab", "prev_tab"}

StartRun ==
    /\ phase = "ready"
    /\ runCmd = "none"
    /\ \E c \in RunCommands : runCmd' = c
    /\ runLen' = 0
    /\ runStartSel' = panels[current_tab + 1].selected_option
    /\ runStartTab' = current_tab
    /\ UNCHANGED <<sessionVars, eventVars, navigated, modeVars, directives>>

RunStep ==
    /\ runCmd /= "none"
    /\ runLen < MaxRun
    /\ CASE runCmd = "move_up" -> KeyUp
         [] runCmd = "move_down" -> KeyDown
         [] runCmd = "next_tab" -> KeyNextTab
         [] runCmd = "prev_tab" -> KeyPrevTab
    /\ runLen' = runLen + 1
    /\ UNCHANGED <<runCmd, runStartSel, runStartTab, directives>>

FreeNav ==
    /\ runCmd = "none"
    /\ (KeyUp \/ KeyDown \/ KeyNextTab \/ KeyPrevTab)
    /\ UNCHANGED <<runVars, directives>>

RunNext ==
    \/ PanelMount
    \/ AppMount
    \/ AfterRefresh
    \/ FreeNav
    \/ StartRun
    \/ RunStep

RunInit ==
    /\ \E qs \in Sessions(MaxTabs) : QuestionApp_init(qs)
    /\ Quiescent
    /\ ModeIdle

RunSpec == RunInit /\ [][RunNext]_vars

(***************************************************************************)
(* Specification of mount and navigation with the focus() calls of each    *)
(* step observed in directives.                                            *)
(***************************************************************************)
Unobserved == UNCHANGED <<eventVars, navigated, runVars, modeVars>>

FocusPanelMount ==
    /\ \E i \in 1..NumPanels :
          /\ QuestionPanel_on_mount(i)
          /\ directives' = update_options_directives(panels[i], choices(i), i)
    /\ Unobserved

FocusAppMount ==
    /\ QuestionApp_on_mount
    /\ directives' = <<>>
    /\ Unobserved

FocusAfterRefresh ==
    /\ after_refresh
    /\ directives' = <<focus_input(panels[1], 1)>>
    /\ Unobserved

FocusKeyUp ==
    /\ action_move_up
    /\ directives' = action_move_up_directives
    /\ Unobserved

FocusKeyDown ==
    /\ action_move_down
    /\ directives' = action_move_down_directives
    /\ Unobserved

FocusKeyNextTab ==
    /\ action_next_tab
    /\ directives' = action_next_tab_directives
    /\ Unobserved

FocusKeyPrevTab ==
    /\ action_prev_tab
    /\ directives' = action_prev_tab_directives
    /\ Unobserved

FocusNext ==
    \/ FocusPanelMount
    \/ FocusAppMount
    \/ FocusAfterRefresh
    \/ FocusKeyUp
    \/ FocusKeyDown
    \/ FocusKeyNextTab
    \/ FocusKeyPrevTab

FocusInit ==
    /\ \E qs \in Sessions(MaxTabs) : QuestionApp_init(qs)
    /\ Quiescent
    /\ ModeIdle

FocusSpec == FocusInit /\ [][FocusNext]_vars

(***************************************************************************)
(* Specification of the mode registry and the mode indicator.              *)
(***************************************************************************)
ModeInit ==
    /\ QuestionApp_init(<<Question(1, 0)>>)
    /\ Quiescent
    /\ mode \in AgentMode
    /\ cycleStart = mode
    /\ cycleLen = 0
    /\ \E m \in AgentMode : indicator = ModeIndicator_init(m)
    /\ RegistryInit

SessionIdle == UNCHANGED <<sessionVars, eventVars, navigated, runVars, directives>>

\* The agent's mode moves to the next one of the cycle.
CycleMode ==
    /\ cycleLen < MaxCycle
    /\ mode' = next_mode(mode)
    /\ cycleLen' = cycleLen + 1
    /\ UNCHANGED <<cycleStart, indicator, mode_configs, parsed, looked>>
    /\ SessionIdle

SetMode ==
    /\ \E m \in AgentMode : set_mode(m)
    /\ UNCHANGED <<mode, cycleStart, cycleLen, mode_configs, parsed, looked>>
    /\ SessionIdle

\* A caller parses a mode name.
Parse ==
    /\ \E value \in ParseInputs : parsed' = <<value, from_string(value)>>
    /\ UNCHANGED <<mode, cycleStart, cycleLen, indicator, mode_configs, looked>>
    /\ SessionIdle

\* A caller reads a mode's config_overrides.
Lookup ==
    /\ \E m \in AgentMode : looked' = <<m, config_overrides(m)>>
    /\ UNCHANGED <<mode, cycleStart, cycleLen, indicator, mode_configs, parsed>>
    /\ SessionIdle

ModeNext == CycleMode \/ SetMode \/ Parse \/ Lookup

ModeSpec == ModeInit /\ [][ModeNext]_vars

(***************************************************************************)
(* Properties.                                                             *)
(***************************************************************************)
AnsweredPosted == posted /= <<>> /\ posted[1].kind = "Answered"

\* r is s without its leading and trailing whitespace: s is a whitespaces, then
\* r, then b whitespaces, and r neither starts nor ends with whitespace.
IsStripOf(r, s) ==
    /\ r = <<>> \/ (r[1] \notin Whitespace /\ r[Len(r)] \notin Whitespace)
    /\ \E a, b \in 0..Len(s) :
          /\ a + b <= Len(s)
          /\ \A n \in 1..a : s[n] \in Whitespace
          /\ \A n \in 1..b : s[Len(s) + 1 - n] \in Whitespace
          /\ r = SubSeq(s, a + 1, Len(s) - b)

\* C1: over any sequence of commands the controller emits one terminal event in
\* total: after the first Answered or Cancelled no further one is emitted.
C1_AtMostOneTerminalEvent == emitted <= 1

C3_AnswersPerQuestionInOrder ==
    AnsweredPosted =>
        /\ Len(posted) = 1
        /\ Len(posted[1].answers) = Len(questions)
        /\ \A i \in 1..Len(questions) :
              posted[1].answers[i] =
                  <<questions[i].question,
                    get_answer(panels[i], choices(i))[1],
                    get_answer(panels[i], choices(i))[2]>>

C3_Witness ==
    /\ AnsweredPosted
    /\ Len(questions) = 2
    /\ current_tab = 1
    /\ panels[1].selected_option = 1
    /\ panels[2].is_other_mode

\* C4 as stated: a panel that was never navigated answers (label of the first
\* choice, false) when its question has choices and ("", true) when it has none.
C4_UnnavigatedAnswersDefault ==
    AnsweredPosted =>
        \A i \in 1..Len(questions) :
            i \notin navigated =>
                posted[1].answers[i] =
                    IF Len(choices(i)) >= 1
                    THEN <<questions[i].question, choices(i)[1].label, FALSE>>
                    ELSE <<questions[i].question, <<>>, TRUE>>

ExampleSession ==
    <<[question |-> "Q1 text",
       choices |-> <<[label |-> <<"y", "e", "s">>, description |-> <<"d", "e", "s", "c", "1">>],
                     [label |-> <<"n", "o">>, description |-> <<>>]>>],
      [question |-> "Q2 text", choices |-> <<>>]>>

\* C4 as amended: a panel that was never navigated answers (label of the first
\* choice, false) when its question has choices, and (the stripped free-text
\* buffer, true) when it has none, which is ("", true) unless text was typed into
\* it; the session Q1 [yes, no], Q2 [] submitted without navigation yields
\* [(Q1 text, yes, false), (Q2 text, "", true)].
C4_UnnavigatedAnswersInitialSelection ==
    AnsweredPosted =>
        /\ \A i \in 1..Len(questions) :
              i \notin navigated =>
                  /\ Len(choices(i)) >= 1 =>
                        posted[1].answers[i] =
                            <<questions[i].question, choices(i)[1].label, FALSE>>
                  /\ Len(choices(i)) = 0 =>
                        /\ posted[1].answers[i][1] = questions[i].question
                        /\ posted[1].answers[i][3] = TRUE
                        /\ IsStripOf(posted[1].answers[i][2], panels[i].value)
                        /\ panels[i].value = <<>> => posted[1].answers[i][2] = <<>>
        /\ (questions = ExampleSession /\ navigated = {}) =>
              posted[1].answers =
                  <<<<"Q1 text", <<"y", "e", "s">>, FALSE>>, <<"Q2 text", <<>>, TRUE>>>>

C4_Witness ==
    /\ AnsweredPosted
    /\ questions = ExampleSession
    /\ navigated = {}

\* C5: in every reachable state of a panel, from construction onward,
\* is_other_mode is true if and only if selected_option == len(choices).
C5_OtherModeIffOtherSelected ==
    \A i \in 1..NumPanels :
        panels[i].is_other_mode <=> (panels[i].selected_option = Len(choices(i)))


\* C6: after any sequence of move_up and move_down calls,
\* 0 <= selected_option < total_options = len(choices) + 1, also at the wraps, so
\* get_answer and the option rendering index choices within range.
C6_SelectedOptionInRange ==
    \A i \in 1..NumPanels :
        /\ panels[i].total_options = Len(choices(i)) + 1
        /\ 0 <= panels[i].selected_option
        /\ panels[i].selected_option < panels[i].total_options
        /\ panels[i].selected_option < Len(choices(i)) =>
              panels[i].selected_option + 1 \in DOMAIN choices(i)

C6_Witness ==
    /\ runCmd = "move_up"
    /\ runLen = 1
    /\ runStartSel = 0
    /\ panels[current_tab + 1].total_options = 3
    /\ panels[current_tab + 1].selected_option = 2

\* C7: with total_options = k and starting selection s, n consecutive move_down
\* calls leave selected_option = (s + n) mod k and n consecutive move_up calls
\* leave (s - n) mod k.
C7_ConsecutiveMoves ==
    LET k == panels[current_tab + 1].total_options
        sel == panels[current_tab + 1].selected_option
    IN  /\ runCmd = "move_down" => sel = (runStartSel + runLen) % k
        /\ runCmd = "move_up" => sel = (((runStartSel - runLen) % k) + k) % k

C7_Witness ==
    /\ runCmd = "move_down"
    /\ runLen = 4
    /\ runStartSel = 1
    /\ panels[current_tab + 1].total_options = 3
    /\ panels[current_tab + 1].selected_option = 2

\* C8: next_tab sets active_tab to (active_tab + 1) mod len(panels) and prev_tab
\* to (active_tab - 1) mod len(panels); len(panels) next_tab calls return to the
\* original tab, and with one question neither changes active_tab.
C8_TabCycle ==
    /\ runCmd = "next_tab" =>
          /\ current_tab = (runStartTab + runLen) % NumPanels
          /\ runLen = NumPanels => current_tab = runStartTab
          /\ NumPanels = 1 => current_tab = runStartTab
    /\ runCmd = "prev_tab" =>
          /\ current_tab = (((runStartTab - runLen) % NumPanels) + NumPanels) % NumPanels
          /\ NumPanels = 1 => current_tab = runStartTab

C8_Witness ==
    /\ runCmd = "next_tab"
    /\ NumPanels = 3
    /\ runLen = 3
    /\ runStartTab = 1
    /\ current_tab = 1

\* C9: get_answer on a choice-selected panel returns (label of the selected
\* choice, false), never the description; on an other-selected panel it returns
\* (the free-text buffer without leading and trailing whitespace, true), so an
\* empty or whitespace-only buffer yields ("", true).
C9_GetAnswer ==
    \A i \in 1..NumPanels :
        LET p == panels[i]
            a == get_answer(p, choices(i))
        IN  IF p.selected_option < Len(choices(i))
            THEN /\ a = <<ChoiceLabel(p.selected_option + 1), FALSE>>
                 /\ a[1] /= ChoiceDescription(p.selected_option + 1)
                 /\ Len(a[1]) = Len(ChoiceLabel(p.selected_option + 1))
            ELSE /\ a[2] = TRUE
                 /\ IsStripOf(a[1], p.value)
                 /\ (\A n \in 1..Len(p.value) : p.value[n] \in Whitespace) => a[1] = <<>>

C9_Witness ==
    /\ AnsweredPosted
    /\ Len(questions) = 2
    /\ panels[1].selected_option = 0
    /\ Len(choices(1)) = 2
    /\ panels[2].is_other_mode
    /\ panels[2].value = <<" ", "\t">>
    /\ posted[1].answers[2] = <<"Q2 text", <<>>, TRUE>>
    /\ posted[1].answers[1] = <<"Q1 text", <<"y", "e", "s">>, FALSE>>

\* C10: next_mode follows the order [AUTO_APPROVE, PLAN, DEFAULT], not the list
\* of declaration order: next(AUTO_APPROVE) = PLAN, next(PLAN) = DEFAULT,
\* next(DEFAULT) = AUTO_APPROVE; it permutes the three modes with period exactly
\* 3, so three applications return to the start and fewer do not.
C10_CycleNext ==
    /\ get_mode_order /= AgentModeMembers
    /\ next_mode(AUTO_APPROVE) = PLAN
    /\ next_mode(PLAN) = DEFAULT
    /\ next_mode(DEFAULT) = AUTO_APPROVE
    /\ { next_mode(m) : m \in AgentMode } = AgentMode
    /\ mode \in AgentMode
    /\ (mode = cycleStart) <=> (cycleLen % 3 = 0)
    /\ cycleLen % 3 = 1 =>
          mode = (CASE cycleStart = AUTO_APPROVE -> PLAN
                    [] cycleStart = PLAN -> DEFAULT
                    [] cycleStart = DEFAULT -> AUTO_APPROVE)
    /\ cycleLen % 3 = 2 =>
          mode = (CASE cycleStart = AUTO_APPROVE -> DEFAULT
                    [] cycleStart = PLAN -> AUTO_APPROVE
                    [] cycleStart = DEFAULT -> PLAN)

C10_Witness ==
    /\ cycleStart = DEFAULT
    /\ cycleLen = 3
    /\ mode = DEFAULT

\* Two texts that differ at most in the case of their ASCII letters.
SameLetter(a, b) ==
    \/ a = b
    \/ \E n \in 1..Len(UpperLetters) :
          {a, b} = {UpperLetters[n], LowerLetters[n]}

EqualIgnoringCase(s, t) ==
    /\ Len(s) = Len(t)
    /\ \A n \in 1..Len(s) : SameLetter(s[n], t[n])

\* C11: from_string is total and case-insensitive: for every input it returns
\* the mode whose name equals the input up to letter case, and None for every
\* input matching no name; parse("plan") = parse("PLAN") = PLAN and
\* parse("bogus") = None.
C11_FromStringTotal ==
    parsed /= <<>> =>
        /\ parsed[2] \in AgentMode \cup {None}
        /\ None \notin AgentMode
        /\ \A m \in AgentMode :
              parsed[2] = m <=> EqualIgnoringCase(parsed[1], MemberName(m))
        /\ parsed[1] = <<"p", "l", "a", "n">> => parsed[2] = PLAN
        /\ parsed[1] = <<"P", "L", "A", "N">> => parsed[2] = PLAN
        /\ parsed[1] = <<"b", "o", "g", "u", "s">> => parsed[2] = None

C11_Witness ==
    /\ parsed = <<(<<"P", "L", "A", "N">>), PLAN>>
    /\ from_string(<<"b", "o", "g", "u", "s">>) = None

\* The table has one entry per mode; PLAN's overrides are exactly one
\* enabled_tools entry listing grep, read_file and todo; the others are empty.
TableAsDeclared ==
    /\ DOMAIN mode_configs = AgentMode
    /\ Cardinality(DOMAIN mode_configs) = 3
    /\ \E tools \in [1..3 -> {"grep", "read_file", "todo"}] :
          /\ mode_configs[PLAN].config_overrides = {<<"enabled_tools", tools>>}
          /\ { tools[n] : n \in 1..3 } = {"grep", "read_file", "todo"}
    /\ mode_configs[DEFAULT].config_overrides = {}
    /\ mode_configs[AUTO_APPROVE].config_overrides = {}
    /\ looked /= <<>> => looked[2] = mode_configs[looked[1]].config_overrides

\* C12: the mode table has exactly one entry per mode and, after any sequence of
\* lookups, parses and cycle steps, PLAN's config_overrides is still the single
\* enabled_tools entry {grep, read_file, todo} and DEFAULT and AUTO_APPROVE
\* carry empty overrides; no operation changes the table.
C12_TableImmutable ==
    /\ []TableAsDeclared
    /\ [][mode_configs' = mode_configs]_vars

C12_Witness ==
    /\ looked = <<PLAN, {<<"enabled_tools", PLAN_MODE_TOOLS>>}>>
    /\ parsed /= <<>>
    /\ cycleLen > 0

\* The selection state of panel i is the same after the step.
SelectionKept(i) ==
    /\ panels'[i].selected_option = panels[i].selected_option
    /\ panels'[i].is_other_mode = panels[i].is_other_mode
    /\ panels'[i].value = panels[i].value

\* C13: move_up and move_down change selected_option only of the panel at
\* current_tab; the selected_option, is_other_mode and free text of every other
\* panel, and current_tab itself, are unchanged.
C13_MoveOnlyActivePanel ==
    [][(action_move_up \/ action_move_down) =>
          /\ current_tab' = current_tab
          /\ \A i \in 1..NumPanels : i /= current_tab + 1 => SelectionKept(i)]_vars

C13_Witness ==
    /\ NumPanels = 2
    /\ current_tab = 1
    /\ panels[2].selected_option = 1
    /\ Len(choices(1)) > 0
    /\ panels[1].selected_option = Len(choices(1))
    /\ panels[1].value /= <<>>

\* Panel p of question i has the "Other" option selected.
OtherSelected(p, i) == p.selected_option = Len(choices(i))

\* C14: a move_up or move_down that takes the active panel from choice-selected
\* to other-selected issues one focus directive, to the free-text input; one
\* that takes it from other-selected to choice-selected issues one to the panel
\* itself; a move between two choice-selected states issues none.
C14_FocusHandOff ==
    [][(action_move_up \/ action_move_down) =>
          LET i == current_tab + 1
              was == OtherSelected(panels[i], i)
              is == OtherSelected(panels'[i], i)
          IN  /\ ~was /\ is => directives' = <<InputOf(i)>>
              /\ was /\ ~is => directives' = <<PanelOf(i)>>
              /\ ~was /\ ~is => directives' = <<>>]_vars

C14_Witness ==
    /\ NumPanels = 1
    /\ phase = "ready"
    /\ Len(choices(1)) = 2
    /\ panels[1].selected_option = 1
    /\ directives = <<PanelOf(1)>>

\* Every panel of a question without choices has one option, the "Other" one,
\* and has it selected.
ZeroChoicePanelsOnOther ==
    \A i \in 1..NumPanels :
        Len(choices(i)) = 0 =>
            /\ panels[i].total_options = 1
            /\ panels[i].selected_option = 0
            /\ OtherSelected(panels[i], i)

\* C15: for a question with zero choices total_options = 1 and the panel is
\* other-selected in every reachable state; move_up and move_down leave its
\* selected_option at 0 and change nothing else of its selection state.
C15_ZeroChoicesNoOp ==
    /\ []ZeroChoicePanelsOnOther
    /\ [][(action_move_up \/ action_move_down)
            /\ Len(choices(current_tab + 1)) = 0
          => /\ panels'[current_tab + 1].selected_option = 0
             /\ SelectionKept(current_tab + 1)]_vars

C15_Witness ==
    /\ runCmd = "move_down"
    /\ runLen >= 2
    /\ Len(choices(current_tab + 1)) = 0
    /\ panels[current_tab + 1].selected_option = 0
    /\ panels[current_tab + 1].is_other_mode

\* C16: a next_tab or prev_tab that changes current_tab deactivates the old tab
\* and panel, activates the new ones and directs focus into the new panel: to
\* its free-text input if selected_option = len(choices) there, otherwise to
\* the panel itself; also when the new panel's question has no choices.
C16_TabChangeFocus ==
    [][current_tab' /= current_tab =>
          LET old == current_tab + 1
              new == current_tab' + 1
              target == IF OtherSelected(panels[new], new)
                        THEN InputOf(new)
                        ELSE PanelOf(new)
          IN  /\ action_next_tab \/ action_prev_tab
              /\ tab_widgets'[old] = FALSE
              /\ tab_widgets'[new] = TRUE
              /\ ~panels'[old].display /\ ~panels'[old].text_active
              /\ panels'[new].display /\ panels'[new].text_active
              /\ directives' = <<target>>
              /\ focus' = target
              /\ Len(choices(new)) = 0 => target = InputOf(new)]_vars

C16_Witness ==
    /\ NumPanels = 3
    /\ current_tab = 2
    /\ Len(choices(3)) = 0
    /\ Len(choices(1)) > 0
    /\ panels[1].selected_option = 0
    /\ ~panels[1].display
    /\ tab_widgets = <<FALSE, FALSE, TRUE>>
    /\ directives = <<InputOf(3)>>
    /\ focus = InputOf(3)

\* The panels that are displayed, the question texts marked active and the
\* tab widgets marked active.
DisplayedPanels == { i \in 1..NumPanels : panels[i].display }
ActiveTexts == { i \in 1..NumPanels : panels[i].text_active }
ActiveTabs == { i \in 1..Len(tab_widgets) : tab_widgets[i] }

\* Exactly the panel at current_tab is displayed, and with more than one
\* question exactly the tab widget at current_tab is active.
OneDisplayedOneTab ==
    /\ DisplayedPanels = {current_tab + 1}
    /\ NumPanels > 1 => ActiveTabs = {current_tab + 1}
    /\ phase = "composed" => current_tab = 0

\* C17 as stated: in every reachable state of a session with at least one
\* question exactly one panel is displayed and exactly one question text is
\* marked active, both of the panel at current_tab; with more than one question
\* exactly one tab widget is active, the one at current_tab; initially
\* current_tab = 0.
C17_OneActiveAlways ==
    NumPanels >= 1 =>
        /\ OneDisplayedOneTab
        /\ ActiveTexts = {current_tab + 1}

\* C17, amended: the displayed panel and the active tab are those of
\* current_tab in every reachable state, and current_tab = 0 initially; the
\* question text of that panel is the one marked active from the end of
\* QuestionApp.on_mount on, and no question text is marked before.
C17_OneActiveOnceMounted ==
    NumPanels >= 1 =>
        /\ OneDisplayedOneTab
        /\ phase /= "composed" => ActiveTexts = {current_tab + 1}
        /\ phase = "composed" => ActiveTexts = {}

C17_Witness ==
    /\ NumPanels = 2
    /\ phase = "ready"
    /\ current_tab = 1
    /\ ActiveTexts = {2}
    /\ DisplayedPanels = {2}
    /\ tab_widgets = <<FALSE, TRUE>>
    /\ panels[1].selected_option /= 0

\* C18 as stated: once the session is ready the most recent focus directive
\* targets the panel at current_tab or its input, and no step ever issues a
\* focus directive to a panel other than the one at current_tab or to that
\* panel's input, the mount-time display update of a panel included.
C18_FocusOnlyOnActivePanel ==
    /\ phase = "ready" => focus.idx = current_tab + 1
    /\ \A n \in 1..Len(directives) : directives[n].idx = current_tab + 1

\* The caption the indicator shows for each mode.
CaptionOf(m) ==
    CASE m = DEFAULT ->
            <<"play", " ", "d", "e", "f", "a", "u", "l", "t",
              " mode (shift+tab to cycle)">>
      [] m = PLAN ->
            <<"pause", " ", "p", "l", "a", "n", " mode (shift+tab to cycle)">>
      [] m = AUTO_APPROVE ->
            <<"play play", " ", "a", "u", "t", "o", " ", "a", "p", "p", "r",
              "o", "v", "e", " mode (shift+tab to cycle)">>

\* C19: after construction and after any sequence of set_mode calls the
\* indicator carries exactly one safety class, the one of its current mode's
\* safety tier (PLAN -> mode-safe, DEFAULT -> mode-neutral, AUTO_APPROVE ->
\* mode-yolo), no class of an earlier mode remains, and its caption is the
\* current mode's icon followed by the lower-cased display name.
C19_IndicatorOneSafetyClass ==
    /\ indicator.mode \in AgentMode
    /\ Cardinality(indicator.classes) = 1
    /\ indicator.mode = PLAN => indicator.classes = {"mode-safe"}
    /\ indicator.mode = DEFAULT => indicator.classes = {"mode-neutral"}
    /\ indicator.mode = AUTO_APPROVE => indicator.classes = {"mode-yolo"}
    /\ indicator.caption = CaptionOf(indicator.mode)

C19_Witness ==
    /\ indicator.mode = PLAN
    /\ indicator.classes = {"mode-safe"}
    /\ indicator.caption = CaptionOf(PLAN)

\* C20: submit and cancel are read-only: every step that posts a message is an
\* enter or escape command and leaves current_tab and every panel's
\* selected_option, is_other_mode and free text unchanged; and every step that
\* changes current_tab or a panel's selection state, as next_tab, prev_tab,
\* move_up and move_down do, posts neither Answered nor Cancelled.
C20_TerminalCommandsReadOnly ==
    [][/\ (emitted' /= emitted \/ posted' /= <<>>) =>
              /\ KeyEnterPanel \/ KeyEnterInput \/ KeyEscape
              /\ current_tab' = current_tab
              /\ \A i \in 1..NumPanels : SelectionKept(i)
       /\ (current_tab' /= current_tab
             \/ \E i \in 1..NumPanels :
                  panels'[i].selected_option /= panels[i].selected_option) =>
              /\ KeyUp \/ KeyDown \/ KeyNextTab \/ KeyPrevTab
              /\ posted' = <<>>
              /\ emitted' = emitted]_vars

C20_Witness ==
    /\ posted /= <<>>
    /\ posted[1].kind = "Answered"
    /\ emitted = 1
    /\ current_tab = 1
    /\ panels[2].selected_option = Len(choices(2))
    /\ panels[2].value = <<" ", "h", " ", "i", "\t">>
    /\ panels[1].selected_option = 1

=============================================================================
